---- MODULE Spec2Model ----
(***************************************************************************)
(* A model of the GinGo HTTP server: two in-memory record stores (users,   *)
(* posts), the CRUD handlers over them, and the basic-auth middleware of   *)
(* the post routes.  A step of the sequential specifications is one whole  *)
(* request: middleware chain, handler, response.  The concurrent           *)
(* specification splits the two create handlers at their accesses to the   *)
(* shared slices.                                                          *)
(***************************************************************************)
EXTENDS Integers, Sequences, FiniteSets, TLC

VARIABLES users, posts, req, resp, pc, local, hdr, wresp

vars == <<users, posts, req, resp, pc, local, hdr, wresp>>

(* ------------------------------ bounds -------------------------------- *)

\* The longest store a create may still append to.
MaxLen == 2

(* --------------------------- status codes ----------------------------- *)

StatusOK == 200
StatusCreated == 201
StatusBadRequest == 400
StatusUnauthorized == 401
StatusNotFound == 404
StatusConflict == 409

(* ----------------------------- records -------------------------------- *)

\* type User: the zero time is 0.
User(id, username, email, password, created) ==
  [ID |-> id, Username |-> username, Email |-> email, Password |-> password,
   Created |-> created]

\* type Post
Post(id, title, content, userID, created) ==
  [ID |-> id, Title |-> title, Content |-> content, UserID |-> userID,
   Created |-> created]

\* var dummyUser: the one identity the auth middleware accepts.
dummyUser == User(1, "admin", "admin@example.com", "password123", 1)

(* ------------------------------ inputs -------------------------------- *)

\* Values time.Now() may return: the clock of the model does not advance.
Times == {1}

\* Identifier and timestamp a client may put in a JSON body: absent (the
\* zero values) or present (values the server never assigns).
BodyExtras == {<<0, 0>>, <<7, 9>>}

\* Username, email and password of a decoded user body: all present (two
\* usernames), exactly one empty, all empty.
UserFields ==
  {<<"bob", "b@x.com", "pw">>, <<"amy", "b@x.com", "pw">>,
   <<"", "b@x.com", "pw">>, <<"bob", "", "pw">>, <<"bob", "b@x.com", "">>,
   <<"", "", "">>}

\* A request body: ok is FALSE when BindJSON fails on it.
Body(ok, val) == [ok |-> ok, val |-> val]

MalformedBody == Body(FALSE, <<>>)

UserBodies ==
  {Body(TRUE, User(x[1], f[1], f[2], f[3], x[2])) : x \in BodyExtras, f \in UserFields}
    \cup {MalformedBody}

\* Title and content of a decoded post body: both present, both empty.
PostFields == {<<"hi", "yo">>, <<"", "">>}

PostBodies ==
  {Body(TRUE, Post(x[1], f[1], f[2], 5, x[2])) : x \in BodyExtras, f \in PostFields}
    \cup {MalformedBody}

\* The Authorization header: ok is FALSE when Request.BasicAuth finds none.
Auth(ok, username, password) == [ok |-> ok, username |-> username, password |-> password]

NoAuth == Auth(FALSE, "", "")

Auths ==
  {NoAuth, Auth(TRUE, "admin", "password123"), Auth(TRUE, "admin", "pw"),
   Auth(TRUE, "bob", "password123")}

\* fmt.Sprintf("%d", n) for n >= 0, as the sequence of its decimal digits.
RECURSIVE Sprintf_d(_)
Sprintf_d(n) == IF n < 10 THEN <<n>> ELSE Sprintf_d(n \div 10) \o <<n % 10>>

\* Values of the :id path parameter: the decimal form of every identifier a
\* store can hold, one more, and a form with a leading zero.
Params == {Sprintf_d(n) : n \in 1..(MaxLen + 1)} \cup {<<0, 1>>}

NoParam == <<>>

Request(method, route, id, auth, body) ==
  [method |-> method, route |-> route, id |-> id, auth |-> auth, body |-> body]

\* c.JSON(status, ...): handler is the handler that wrote the response
\* (AuthMiddleware when the request was aborted); items are the records of
\* the body, msg its message.
Response(status, handler, kind, items, msg) ==
  [status |-> status, handler |-> handler, kind |-> kind, items |-> items, msg |-> msg]

(* ----------------------------- helpers -------------------------------- *)

\* Mutant of userExists: the scan compares the stored email.
userExists_ByEmail(us, username) == \E i \in 1..Len(us) : us[i].Email = username

\* Mutant of userExists: the scan never reports a match.
userExists_Never(us, username) == FALSE

\* func userExists
userExists(us, username) == \E i \in 1..Len(us) : us[i].Username = username

\* Mutant of validateUserInput: the email is not checked.
validateUserInput_NoEmail(user) == user.Username # "" /\ user.Password # ""

\* func validateUserInput
validateUserInput(user) ==
  user.Username # "" /\ user.Email # "" /\ user.Password # ""

\* Mutant of Authorized: the password is not compared.
Authorized_UsernameOnly(auth) == auth.ok /\ auth.username = dummyUser.Username

\* The condition under which AuthMiddleware calls c.Next().
Authorized(auth) ==
  auth.ok /\ auth.username = dummyUser.Username /\ auth.password = dummyUser.Password

\* Mutant of NextID: the length itself.
NextID_NoIncrement(coll) == Len(coll)

\* len(collection) + 1, the identifier a create assigns.
NextID(coll) == Len(coll) + 1

\* The index of the first record whose formatted identifier is the path
\* parameter, 0 when the scan finds none.
FindByParam(coll, id) ==
  IF \E i \in 1..Len(coll) : Sprintf_d(coll[i].ID) = id
    THEN CHOOSE i \in 1..Len(coll) :
           /\ Sprintf_d(coll[i].ID) = id
           /\ \A j \in 1..(i - 1) : Sprintf_d(coll[j].ID) # id
    ELSE 0

\* append(s[:i], s[i+1:]...) with i the 0-based index of position k.
Splice(s, k) == SubSeq(s, 1, k - 1) \o SubSeq(s, k + 1, Len(s))

\* Mutant of AssignUserFields: users[i] = updatedUser.
AssignUserFields_WholeRecord(u, b) == b

\* users[i].Username, .Email, .Password = updatedUser's
AssignUserFields(u, b) ==
  [u EXCEPT !.Username = b.Username, !.Email = b.Email, !.Password = b.Password]

\* posts[i].Title, .Content = updatedPost's
AssignPostFields(p, b) == [p EXCEPT !.Title = b.Title, !.Content = b.Content]

(* ------------------- handlers, as functions of the store -------------- *)

Result(coll, response) == [coll |-> coll, resp |-> response]

\* func getUsers
getUsers(us) ==
  IF Len(us) = 0
    THEN Result(us, Response(StatusNotFound, "getUsers", "message", <<>>, "No users found"))
    ELSE Result(us, Response(StatusOK, "getUsers", "list", us, ""))

\* func createUser
createUser(us, body, now) ==
  IF ~body.ok
    THEN Result(us, Response(StatusBadRequest, "createUser", "error", <<>>, "bind"))
  ELSE IF ~validateUserInput(body.val)
    THEN Result(us, Response(StatusBadRequest, "createUser", "error", <<>>, "Invalid user input"))
  ELSE IF userExists(us, body.val.Username)
    THEN Result(us, Response(StatusConflict, "createUser", "error", <<>>, "User already exists"))
  ELSE LET newUser == [body.val EXCEPT !.ID = NextID(us), !.Created = now]
       IN  Result(Append(us, newUser),
                  Response(StatusCreated, "createUser", "record", <<newUser>>, ""))

\* func updateUser
updateUser(us, id, body) ==
  LET i == FindByParam(us, id)
  IN  IF i = 0
        THEN Result(us, Response(StatusNotFound, "updateUser", "message", <<>>, "User not found"))
      ELSE IF ~body.ok
        THEN Result(us, Response(StatusBadRequest, "updateUser", "error", <<>>, "bind"))
      ELSE LET updated == [us EXCEPT ![i] = AssignUserFields(us[i], body.val)]
           IN  Result(updated, Response(StatusOK, "updateUser", "record", <<updated[i]>>, ""))

\* func deleteUser
deleteUser(us, id) ==
  LET i == FindByParam(us, id)
  IN  IF i = 0
        THEN Result(us, Response(StatusNotFound, "deleteUser", "message", <<>>, "User not found"))
        ELSE Result(Splice(us, i), Response(StatusOK, "deleteUser", "message", <<>>, "User deleted"))

\* func getPosts
getPosts(ps) ==
  IF Len(ps) = 0
    THEN Result(ps, Response(StatusNotFound, "getPosts", "message", <<>>, "No posts found"))
    ELSE Result(ps, Response(StatusOK, "getPosts", "list", ps, ""))

\* func createPost
createPost(ps, body, now) ==
  IF ~body.ok
    THEN Result(ps, Response(StatusBadRequest, "createPost", "error", <<>>, "bind"))
  ELSE LET newPost == [body.val EXCEPT !.ID = NextID(ps), !.Created = now]
       IN  Result(Append(ps, newPost),
                  Response(StatusCreated, "createPost", "record", <<newPost>>, ""))

\* func updatePost
updatePost(ps, id, body) ==
  LET i == FindByParam(ps, id)
  IN  IF i = 0
        THEN Result(ps, Response(StatusNotFound, "updatePost", "message", <<>>, "Post not found"))
      ELSE IF ~body.ok
        THEN Result(ps, Response(StatusBadRequest, "updatePost", "error", <<>>, "bind"))
      ELSE LET updated == [ps EXCEPT ![i] = AssignPostFields(ps[i], body.val)]
           IN  Result(updated, Response(StatusOK, "updatePost", "record", <<updated[i]>>, ""))

\* func deletePost
deletePost(ps, id) ==
  LET i == FindByParam(ps, id)
  IN  IF i = 0
        THEN Result(ps, Response(StatusNotFound, "deletePost", "message", <<>>, "Post not found"))
        ELSE Result(Splice(ps, i), Response(StatusOK, "deletePost", "message", <<>>, "Post deleted"))

\* func AuthMiddleware, around the handler's result r: the handler runs
\* only on c.Next(); otherwise the store is ps and the response is the 401.
AuthMiddleware(auth, ps, r) ==
  IF ~Authorized(auth)
    THEN Result(ps, Response(StatusUnauthorized, "AuthMiddleware", "message", <<>>, "unauthorized"))
    ELSE r

(* ------------------------------ state --------------------------------- *)

NoRequest == Request("", "", NoParam, NoAuth, MalformedBody)

NoResponse == Response(0, "", "", <<>>, "")

Workers == {1, 2}

Idle ==
  /\ pc = [w \in Workers |-> "idle"]
  /\ local = [w \in Workers |-> NoRequest]
  /\ hdr = [w \in Workers |-> <<>>]
  /\ wresp = [w \in Workers |-> NoResponse]

\* var users = []User{}; var posts = []Post{}
Init ==
  /\ users = <<>>
  /\ posts = <<>>
  /\ req = NoRequest
  /\ resp = NoResponse
  /\ Idle

(* ------------- sequential requests on the user routes ----------------- *)

\* One request served to its end on a user route: the store and the
\* response are the handler's.
ServeUsers(request, r) ==
  /\ Len(r.coll) <= MaxLen
  /\ users' = r.coll
  /\ req' = request
  /\ resp' = r.resp
  /\ UNCHANGED <<posts, pc, local, hdr, wresp>>

\* router.GET("/users", getUsers)
GetUsers ==
  ServeUsers(Request("GET", "/users", NoParam, NoAuth, MalformedBody), getUsers(users))

\* router.POST("/users", createUser)
CreateUser ==
  \E body \in UserBodies, now \in Times :
    ServeUsers(Request("POST", "/users", NoParam, NoAuth, body),
               createUser(users, body, now))

\* router.PUT("/users/:id", updateUser)
UpdateUser ==
  \E id \in Params, body \in UserBodies :
    ServeUsers(Request("PUT", "/users/:id", id, NoAuth, body),
               updateUser(users, id, body))

\* router.DELETE("/users/:id", deleteUser)
DeleteUser ==
  \E id \in Params :
    ServeUsers(Request("DELETE", "/users/:id", id, NoAuth, MalformedBody),
               deleteUser(users, id))

Next == GetUsers \/ CreateUser \/ UpdateUser \/ DeleteUser

Spec == Init /\ [][Next]_vars

(* ------------- sequential requests on the post routes ----------------- *)

\* One request served to its end on a route of the auth group: the handler's
\* result r stands only if AuthMiddleware lets the request through.
ServePosts(request, r) ==
  LET out == AuthMiddleware(request.auth, posts, r)
  IN  /\ Len(out.coll) <= MaxLen
      /\ posts' = out.coll
      /\ req' = request
      /\ resp' = out.resp
      /\ UNCHANGED <<users, pc, local, hdr, wresp>>

\* auth.GET("/posts", getPosts)
GetPosts ==
  \E auth \in Auths :
    ServePosts(Request("GET", "/posts", NoParam, auth, MalformedBody), getPosts(posts))

\* auth.POST("/posts", createPost)
CreatePost ==
  \E auth \in Auths, body \in PostBodies, now \in Times :
    ServePosts(Request("POST", "/posts", NoParam, auth, body),
               createPost(posts, body, now))

\* auth.PUT("/posts/:id", updatePost)
UpdatePost ==
  \E auth \in Auths, id \in Params, body \in PostBodies :
    ServePosts(Request("PUT", "/posts/:id", id, auth, body),
               updatePost(posts, id, body))

\* auth.DELETE("/posts/:id", deletePost)
DeletePost ==
  \E auth \in Auths, id \in Params :
    ServePosts(Request("DELETE", "/posts/:id", id, auth, MalformedBody),
               deletePost(posts, id))

\* The post routes, served with the user store empty or holding one user
\* (the store after POST /users {bob, b@x.com, pw}).
PostInit ==
  /\ users \in {<<>>, <<User(1, "bob", "b@x.com", "pw", 1)>>}
  /\ posts = <<>>
  /\ req = NoRequest
  /\ resp = NoResponse
  /\ Idle

PostNext == GetPosts \/ CreatePost \/ UpdatePost \/ DeletePost

PostSpec == PostInit /\ [][PostNext]_vars

\* The requests that assign identifiers and change a store's length, on
\* both stores.
IdNext == CreateUser \/ DeleteUser \/ CreatePost \/ DeletePost

IdSpec == Init /\ [][IdNext]_vars

(* ---------------- concurrent creates: two requests in flight ---------- *)

\* The store a route's create handler works on.
Coll(route) == IF route = "/users" THEN users ELSE posts

\* c.JSON(...); return: the request is over and its locals are gone.
Respond(w, response) ==
  /\ wresp' = [wresp EXCEPT ![w] = response]
  /\ pc' = [pc EXCEPT ![w] = "done"]
  /\ local' = [local EXCEPT ![w] = NoRequest]
  /\ hdr' = [hdr EXCEPT ![w] = <<>>]

\* A worker moves on to label at, its request's decoded record being rec.
Goto(w, at, rec) ==
  /\ pc' = [pc EXCEPT ![w] = at]
  /\ local' = [local EXCEPT ![w].body.val = rec]
  /\ UNCHANGED <<hdr, wresp>>

\* Bound of the concurrent specification: the stores being independent, a
\* run races the creates of one store, the other staying empty.
OneStore(route) ==
  /\ Len(Coll(IF route = "/users" THEN "/posts" ELSE "/users")) = 0
  /\ \A v \in Workers : local[v].route \in {"", route}

\* A POST arrives at a free worker.  On /posts AuthMiddleware runs first;
\* then the handler's BindJSON (createUser, createPost: the first lines).
CBind(w) ==
  /\ pc[w] \in {"idle", "done"}
  /\ \E route \in {"/users", "/posts"}, auth \in Auths,
        body \in UserBodies \cup PostBodies :
        /\ route = "/users" => auth = NoAuth /\ body \in UserBodies
        /\ route = "/posts" => body \in PostBodies
        /\ OneStore(route)
        /\ IF route = "/posts" /\ ~Authorized(auth)
             THEN Respond(w, Response(StatusUnauthorized, "AuthMiddleware", "message",
                                      <<>>, "unauthorized"))
           ELSE IF ~body.ok
             THEN Respond(w, Response(StatusBadRequest,
                                      IF route = "/users" THEN "createUser" ELSE "createPost",
                                      "error", <<>>, "bind"))
           ELSE /\ pc' = [pc EXCEPT ![w] =
                           IF route = "/users" THEN "validate" ELSE "assign"]
                /\ local' = [local EXCEPT ![w] = Request("POST", route, NoParam, auth, body)]
                /\ wresp' = [wresp EXCEPT ![w] = NoResponse]
                /\ UNCHANGED hdr
  /\ UNCHANGED <<users, posts, req, resp>>

\* createUser: if !validateUserInput(newUser)
CValidate(w) ==
  /\ pc[w] = "validate"
  /\ IF ~validateUserInput(local[w].body.val)
       THEN Respond(w, Response(StatusBadRequest, "createUser", "error", <<>>,
                                "Invalid user input"))
       ELSE Goto(w, "check", local[w].body.val)
  /\ UNCHANGED <<users, posts, req, resp>>

\* createUser: if userExists(newUser.Username), a read of users
CCheck(w) ==
  /\ pc[w] = "check"
  /\ IF userExists(users, local[w].body.val.Username)
       THEN Respond(w, Response(StatusConflict, "createUser", "error", <<>>,
                                "User already exists"))
       ELSE Goto(w, "assign", local[w].body.val)
  /\ UNCHANGED <<users, posts, req, resp>>

\* newX.ID = len(xs) + 1, a read of the store; newX.Created = time.Now()
CAssign(w) ==
  /\ pc[w] = "assign"
  /\ \E now \in Times :
        Goto(w, "append", [local[w].body.val EXCEPT
                             !.ID = NextID(Coll(local[w].route)), !.Created = now])
  /\ UNCHANGED <<users, posts, req, resp>>

\* xs = append(xs, newX), first half: the read of the slice.  The race of
\* two appends shows as their interleaved reads and writes: both records
\* kept, or one overwritten by the other's write.  Within MaxLen every
\* append of a run from the empty store reallocates (capacities 1, 2, 4),
\* so no two writes share a backing array; the slice header is read and
\* written whole.
CLoad(w) ==
  /\ pc[w] = "append"
  /\ hdr' = [hdr EXCEPT ![w] = Coll(local[w].route)]
  /\ pc' = [pc EXCEPT ![w] = "store"]
  /\ UNCHANGED <<users, posts, req, resp, local, wresp>>

\* Mutant of CStore: the append takes a fresh identifier from the store as
\* it is now, in one step with the write.
CStore_Recompute(w) ==
  LET coll == Coll(local[w].route)
      rec == [local[w].body.val EXCEPT !.ID = Len(coll) + 1]
  IN  /\ pc[w] = "store"
      /\ Len(coll) < MaxLen
      /\ IF local[w].route = "/users"
           THEN users' = Append(coll, rec) /\ UNCHANGED posts
           ELSE posts' = Append(coll, rec) /\ UNCHANGED users
      /\ Respond(w, Response(StatusCreated,
                             IF local[w].route = "/users" THEN "createUser" ELSE "createPost",
                             "record", <<rec>>, ""))
      /\ UNCHANGED <<req, resp>>

\* xs = append(xs, newX), second half: the write of the slice read at
\* CLoad with the record appended; then c.JSON(http.StatusCreated, newX)
CStore(w) ==
  /\ pc[w] = "store"
  /\ Len(hdr[w]) < MaxLen
  /\ IF local[w].route = "/users"
       THEN /\ users' = Append(hdr[w], local[w].body.val)
            /\ UNCHANGED posts
       ELSE /\ posts' = Append(hdr[w], local[w].body.val)
            /\ UNCHANGED users
  /\ Respond(w, Response(StatusCreated,
                         IF local[w].route = "/users" THEN "createUser" ELSE "createPost",
                         "record", <<local[w].body.val>>, ""))
  /\ UNCHANGED <<req, resp>>

ConcNext ==
  \E w \in Workers :
    CBind(w) \/ CValidate(w) \/ CCheck(w) \/ CAssign(w) \/ CLoad(w) \/ CStore(w)

ConcSpec == Init /\ [][ConcNext]_vars

(* ============================== claims ================================ *)

\* The request of a step is a well-formed POST /users.
IsCreateUser(r) == r.method = "POST" /\ r.route = "/users" /\ r.body.ok

\* Some field of a decoded user body is the empty string.
HasEmptyField(u) == u.Username = "" \/ u.Email = "" \/ u.Password = ""

\* Some record of store us carries username name.
Holds(us, name) == \E i \in 1..Len(us) : us[i].Username = name

\* Two records of a store carry the same identifier.
DuplicateID(coll) ==
  \E i, j \in 1..Len(coll) : i < j /\ coll[i].ID = coll[j].ID

\* Two users carry the same username.
DuplicateUsername(us) ==
  \E i, j \in 1..Len(us) : i < j /\ us[i].Username = us[j].Username

\* The record at position i has identifier i.
Positional(coll) == \A i \in 1..Len(coll) : coll[i].ID = i

(* C1: a well-formed create-user request with an empty username, email or
   password is answered 400 and leaves the user store exactly as it was. *)
C1_EmptyFieldRejected ==
  [][(IsCreateUser(req') /\ HasEmptyField(req'.body.val))
       => (resp'.status = 400 /\ users' = users)]_vars

\* A request with only the email empty was answered 400 on a full store.
C1_Witness ==
  /\ IsCreateUser(req)
  /\ req.body.val.Username = "bob" /\ req.body.val.Email = ""
  /\ req.body.val.Password = "pw"
  /\ resp.status = 400
  /\ Len(users) = MaxLen

(* C2: a create-user request with all fields non-empty whose username is
   held by a stored user is answered 409 and leaves the store unchanged. *)
C2_DuplicateRejected ==
  [][(/\ IsCreateUser(req')
      /\ ~HasEmptyField(req'.body.val)
      /\ Holds(users, req'.body.val.Username))
       => (resp'.status = 409 /\ users' = users)]_vars

\* A request for the username of the second stored user was answered 409.
C2_Witness ==
  /\ IsCreateUser(req)
  /\ resp.status = 409
  /\ Len(users) = 2
  /\ users[1].Username # req.body.val.Username
  /\ users[2].Username = req.body.val.Username

(* C3: a create-user request with all fields non-empty and a username no
   stored user holds is answered 201; the store is the old store with one
   record appended, carrying the request's username, email and password and
   the identifier n+1 for an old store of length n, whatever identifier the
   body gave; the response body is that record. *)
C3_CreateAppends ==
  [][(/\ IsCreateUser(req')
      /\ ~HasEmptyField(req'.body.val)
      /\ ~Holds(users, req'.body.val.Username))
       => (/\ resp'.status = 201
           /\ Len(users') = Len(users) + 1
           /\ SubSeq(users', 1, Len(users)) = users
           /\ users'[Len(users')].ID = Len(users) + 1
           /\ users'[Len(users')].Username = req'.body.val.Username
           /\ users'[Len(users')].Email = req'.body.val.Email
           /\ users'[Len(users')].Password = req'.body.val.Password
           /\ resp'.items = <<users'[Len(users')]>>)]_vars

\* A body that gave identifier 7 was stored with identifier 1 on the empty
\* store and answered with that record.
C3_Witness ==
  /\ IsCreateUser(req)
  /\ req.body.val.ID = 7
  /\ resp.status = 201
  /\ Len(users) = 1
  /\ users[1].ID = 1
  /\ resp.items = <<users[1]>>

\* The credentials of a request are exactly admin / password123.
AdminCredentials(a) == a.ok /\ a.username = "admin" /\ a.password = "password123"

\* The handler of a post route.
PostHandler(r) ==
  CASE r.method = "GET" -> "getPosts"
    [] r.method = "POST" -> "createPost"
    [] r.method = "PUT" -> "updatePost"
    [] OTHER -> "deletePost"

(* C4: on each post route a request without basic auth, or with a pair
   other than admin/password123, is answered 401 by the middleware, the
   handler not running and both stores unchanged; a request with
   admin/password123 is never answered 401 and reaches its handler.  This
   holds of every request in every reachable state, so whatever requests
   came before. *)
C4_AuthGate ==
  [][req'.route \in {"/posts", "/posts/:id"}
       => IF AdminCredentials(req'.auth)
            THEN resp'.status # 401 /\ resp'.handler = PostHandler(req')
            ELSE /\ resp'.status = 401
                 /\ resp'.handler = "AuthMiddleware"
                 /\ posts' = posts
                 /\ users' = users]_vars

\* After authenticated creates filled the post store, a DELETE with the
\* right username and a wrong password was answered 401, the stores intact.
C4_Witness ==
  /\ req.method = "DELETE" /\ req.route = "/posts/:id" /\ req.id = <<1>>
  /\ req.auth = Auth(TRUE, "admin", "pw")
  /\ resp.status = 401
  /\ Len(posts) = MaxLen
  /\ posts[1].ID = 1
  /\ Len(users) = 1

(* C5: when DELETE /users/:id was answered 200 and GET /users is the next
   request, its response holds no user whose identifier is id. *)
C5_DeletedNotListed ==
  [][(/\ req.method = "DELETE" /\ req.route = "/users/:id" /\ resp.status = 200
      /\ req'.method = "GET" /\ req'.route = "/users")
       => \A i \in 1..Len(resp'.items) : Sprintf_d(resp'.items[i].ID) # req.id]_vars

\* The stored users whose identifier, written in decimal, is the parameter.
Matches(us, id) == {i \in 1..Len(us) : Sprintf_d(us[i].ID) = id}

\* The least element of a non-empty set of positions.
First(S) == CHOOSE i \in S : \A j \in S : i <= j

(* C6: PUT /users/:id is answered 404, the store unchanged, whenever no
   stored user has identifier id, whatever the body; otherwise, the body
   being well-formed, it is answered 200 and the store changes only in the
   first record with that identifier, whose username, email and password
   become the body's: length, order, every identifier and timestamp and
   every other record stay, the body's identifier and timestamp ignored. *)
C6_UpdateFrame ==
  [][(req'.method = "PUT" /\ req'.route = "/users/:id")
       => IF Matches(users, req'.id) = {}
            THEN resp'.status = 404 /\ users' = users
            ELSE req'.body.ok
                   => LET k == First(Matches(users, req'.id))
                      IN  /\ resp'.status = 200
                          /\ Len(users') = Len(users)
                          /\ \A i \in 1..Len(users) : i # k => users'[i] = users[i]
                          /\ users'[k].ID = users[k].ID
                          /\ users'[k].Created = users[k].Created
                          /\ users'[k].Username = req'.body.val.Username
                          /\ users'[k].Email = req'.body.val.Email
                          /\ users'[k].Password = req'.body.val.Password]_vars

\* Of two users with identifier 2 the first was updated, from a body giving
\* identifier 7 and timestamp 9; the second kept its username.
C6_Witness ==
  /\ req.method = "PUT" /\ req.route = "/users/:id" /\ req.id = <<2>>
  /\ req.body.ok /\ req.body.val.ID = 7 /\ req.body.val.Created = 9
  /\ req.body.val.Username = "amy"
  /\ resp.status = 200
  /\ Len(users) = 2
  /\ users[1].ID = 2 /\ users[2].ID = 2
  /\ users[1].Username = "amy" /\ users[1].Created = 1
  /\ users[2].Username = "bob"

(* C7: every stored user has a non-empty username, a non-empty email and a
   non-empty password. *)
C7_NoEmptyFields ==
  \A i \in 1..Len(users) :
    users[i].Username # "" /\ users[i].Email # "" /\ users[i].Password # ""

(* C8: identifiers are positional as long as no delete is served: a step
   that is not a DELETE takes a store in which every position i holds
   identifier i to such a store, for users and for posts (the initial stores
   are empty).  After a delete and a create two records can share an
   identifier (the witness). *)
C8_PositionalUntilDelete ==
  [][req'.method # "DELETE"
       => /\ Positional(users) => Positional(users')
          /\ Positional(posts) => Positional(posts')]_vars

\* Both stores hold two records with the same identifier.
C8_Witness == DuplicateID(users) /\ DuplicateID(posts)

(* C9: no request other than an update makes two stored users share a
   username: a step that is not a PUT takes a store of distinct usernames to
   one.  An update whose well-formed body gives the username of another
   stored user is answered 200 and leaves two users with that username. *)
C9_UniqueUntilUpdate ==
  [][/\ (req'.method # "PUT" /\ ~DuplicateUsername(users)) => ~DuplicateUsername(users')
     /\ (/\ req'.method = "PUT" /\ req'.route = "/users/:id" /\ req'.body.ok
         /\ Matches(users, req'.id) # {}
         /\ \E j \in 1..Len(users) :
              /\ j # First(Matches(users, req'.id))
              /\ users[j].Username = req'.body.val.Username)
          => (resp'.status = 200 /\ DuplicateUsername(users'))]_vars

\* An update answered 200 left two users called bob.
C9_Witness ==
  /\ req.method = "PUT" /\ req.body.ok
  /\ resp.status = 200
  /\ Len(users) = 2
  /\ users[1].Username = "bob" /\ users[2].Username = "bob"
  /\ users[1].ID # users[2].ID

(* C10: nothing orders the steps of two creates in flight.  The identifier
   of a create is the length of the store at its own read plus one, and the
   record it appends and answers with carries that identifier whatever the
   other request did to the store since.  Two concurrent creates can thus
   both answer 201 with the same identifier, both records stored (the
   witness). *)
C10_StaleIdentifier ==
  [][\A w \in Workers :
       /\ (pc[w] = "assign" /\ pc'[w] = "append")
            => local'[w].body.val.ID =
                 Len(IF local[w].route = "/users" THEN users ELSE posts) + 1
       /\ (pc[w] = "store" /\ pc'[w] = "done")
            => LET coll == IF local[w].route = "/users" THEN users' ELSE posts'
               IN  /\ wresp'[w].status = 201
                   /\ wresp'[w].items = <<local[w].body.val>>
                   /\ Len(coll) > 0
                   /\ coll[Len(coll)] = local[w].body.val]_vars

\* Both workers answered 201 with identifier 1, for different usernames, and
\* the user store holds both records; the specification has no delete.
C10_Witness ==
  /\ \A w \in Workers :
       /\ pc[w] = "done"
       /\ wresp[w].status = 201
       /\ wresp[w].handler = "createUser"
       /\ wresp[w].items[1].ID = 1
  /\ wresp[1].items[1].Username # wresp[2].items[1].Username
  /\ Len(users) = 2
  /\ users[1].ID = 1 /\ users[2].ID = 1

====
